---------------------------- MODULE Spec2Model ----------------------------
(***************************************************************************)
(* Compose: the email-HTML compatibility validator (lib/email-validation), *)
(* the canvas editor that validates and auto-saves a template, and the     *)
(* send route that validates a template before handing it to Mailgun.      *)
(*                                                                         *)
(* Text is modelled as a sequence of atoms (short strings).  Every literal *)
(* the code searches for is a concatenation of atoms, so String.includes   *)
(* is a contiguous-subsequence test and the three regular expressions are  *)
(* scans over atoms.  An atom never straddles a searched literal, and the  *)
(* characters '>' and ';' only ever occur as the atoms ">" and ";".        *)
(***************************************************************************)
EXTENDS Integers, Sequences, FiniteSets, TLC

VARIABLES
    html,          \* argument of the last EmailValidator.validate call
    result,        \* outcome of that call: a returned ValidationResult or a throw
    nfrag,         \* number of text fragments the argument was built from
    probe,         \* an earlier call (argument and outcome) kept for comparison
    \* CanvasEditor (components/canvas)
    component,     \* which CanvasEditor source is mounted
    template,      \* the `template` prop, owned by the parent
    content,       \* useState: the edited HTML
    validationResult, \* useState: ValidationResult | null
    pending,       \* a setValidationResult(...) not yet rendered
    timer,         \* the auto-save setTimeout and the closure it captured
    lastSave,      \* the argument of the latest onSave call
    sinceEdit,     \* milliseconds since the latest edit, up to the save delay
    \* POST /api/email/send (app/api/email/send/route.ts)
    dbTemplate,    \* templates table: the html of the caller's template "t1"
    email_sends,   \* email_sends table: the records in insertion order
    mailgunCalls,  \* the messages posted to the Mailgun API
    req,           \* the request being handled: position, locals, response
    requests,      \* number of requests received
    \* EmailValidator.getValidationSummary
    summary,       \* the text returned for `result`, <<>> before the call
    wrapped,       \* what validateEmailHTML returned for `html`
    \* POST /api/email/webhook (app/api/email/webhook/route.ts)
    signingKey,    \* process.env.MAILGUN_WEBHOOK_SIGNING_KEY, "" when not set
    hook,          \* the webhook request being handled: position, body, response
    webhooks,      \* number of webhook requests received
    hookWrites     \* the updates of email_sends made by the webhook handler

validatorVars == <<html, result, nfrag, probe>>
editorVars == <<component, template, content, validationResult, pending, timer, lastSave,
               sinceEdit>>
sendVars == <<dbTemplate, email_sends, mailgunCalls, req, requests>>
summaryVars == <<summary, wrapped>>
webhookVars == <<signingKey, hook, webhooks, hookWrites>>
vars == <<validatorVars, editorVars, sendVars, summaryVars, webhookVars>>

---------------------------------------------------------------------------
(* Bounds *)

MaxFragments == 2      \* fragments concatenated into one validated document
MaxCallFragments == 2  \* fragments per document in the repeated-call runs
TickMs == 1000         \* milliseconds that pass in one step of the clock
MaxRequests == 1       \* requests handled by the send route
MaxWebhooks == 1       \* webhook requests handled

---------------------------------------------------------------------------
(* JavaScript values and strings *)

Str(s) == [t |-> "string", v |-> s]
Undefined == [t |-> "undefined", v |-> <<>>]

WhiteSpace == {" ", "\n"}
Quotes == {"\"", "'"}
DigitAtoms == {"100", "600", "601", "700"}

\* parseInt of a run of decimal digits
parseInt(a) ==
    CASE a = "100" -> 100
      [] a = "600" -> 600
      [] a = "601" -> 601
      [] a = "700" -> 700

\* String.prototype.toLowerCase on one atom
LowerAtom(a) ==
    CASE a = "WIDTH" -> "width"
      [] a = "<IMG" -> "<img"
      [] a = "FONT-FAMILY" -> "font-family"
      [] a = "POSITION" -> "position"
      [] a = "FIXED" -> "fixed"
      [] a = "Arial" -> "arial"
      [] a = "Helvetica" -> "helvetica"
      [] a = "Georgia" -> "georgia"
      [] a = "<TD " -> "<td "
      [] a = "PX" -> "px"
      [] OTHER -> a

toLowerCase(s) == [i \in 1..Len(s) |-> LowerAtom(s[i])]

\* String.prototype.includes: pat occurs as a contiguous run of s
includes(s, pat) ==
    \E i \in 1..(Len(s) - Len(pat) + 1) : SubSeq(s, i, i + Len(pat) - 1) = pat

\* String.prototype.trim() === ''
IsBlank(s) == \A i \in 1..Len(s) : s[i] \in WhiteSpace

\* index of the first atom at or after i that is not white space (\s*)
RECURSIVE SkipWs(_, _)
SkipWs(s, i) ==
    IF i <= Len(s) /\ s[i] \in WhiteSpace THEN SkipWs(s, i + 1) ELSE i

\* index of the first atom at or after i equal to a, or Len(s)+1
RECURSIVE IndexFrom(_, _, _)
IndexFrom(s, a, i) ==
    IF i > Len(s) \/ s[i] = a THEN i ELSE IndexFrom(s, a, i + 1)

---------------------------------------------------------------------------
(* lib/tambo.ts *)

MAX_WIDTH == 600

---------------------------------------------------------------------------
(* lib/email-validation.ts: EmailValidator *)

\* A finding; `suggestion` is a fixed text per message and is left out.
Finding(t, c, m) == [type |-> t, category |-> c, message |-> m]
Err(c, m) == Finding("error", c, m)
Warn(c, m) == Finding("warning", c, m)

\* `if (cond) array.push(f)`: the elements the statement appends.  Each
\* validateX(s, a) below takes the two arrays as a = [errors, warnings] and
\* yields them with the findings of the check pushed.
PushIf(cond, f) == IF cond THEN <<f>> ELSE <<>>

validateStructure_NoTableRule(s, a) ==
    LET noDoctype == ~includes(s, <<"DOCTYPE html PUBLIC">>)
        noHtmlBody == ~includes(s, <<"<html">>) \/ ~includes(s, <<"<body">>)
        noViewport == ~includes(s, <<"viewport">>)
        hasJs == includes(s, <<"<script">>) \/ includes(s, <<"javascript", ":">>)
        hasForm == includes(s, <<"<form">>)
    IN [errors |-> a.errors
            \o PushIf(hasJs, Err("structure",
                 "JavaScript is not supported in email clients")),
        warnings |-> a.warnings
            \o PushIf(noDoctype, Warn("structure", "Missing HTML 4.01 Transitional DOCTYPE"))
            \o PushIf(noHtmlBody, Warn("structure", "Missing proper HTML document structure"))
            \o PushIf(noViewport, Warn("structure", "Missing viewport meta tag"))
            \o PushIf(hasForm, Warn("structure", "Forms have limited support in email clients"))]

validateStructure_PerOccurrence(s, a) ==
    LET noTable == ~includes(s, <<"<table">>)
        noDoctype == ~includes(s, <<"DOCTYPE html PUBLIC">>)
        noHtmlBody == ~includes(s, <<"<html">>) \/ ~includes(s, <<"<body">>)
        noViewport == ~includes(s, <<"viewport">>)
        hasForm == includes(s, <<"<form">>)
    IN [errors |-> a.errors
            \o PushIf(noTable, Err("structure",
                 "Email must use table-based layout for maximum email client compatibility"))
            \o PushIf(includes(s, <<"<script">>), Err("structure",
                 "JavaScript is not supported in email clients"))
            \o PushIf(includes(s, <<"javascript", ":">>), Err("structure",
                 "JavaScript is not supported in email clients")),
        warnings |-> a.warnings
            \o PushIf(noDoctype, Warn("structure", "Missing HTML 4.01 Transitional DOCTYPE"))
            \o PushIf(noHtmlBody, Warn("structure", "Missing proper HTML document structure"))
            \o PushIf(noViewport, Warn("structure", "Missing viewport meta tag"))
            \o PushIf(hasForm, Warn("structure", "Forms have limited support in email clients"))]

validateStructure(s, a) ==
    LET noTable == ~includes(s, <<"<table">>)
        noDoctype == ~includes(s, <<"DOCTYPE html PUBLIC">>)
        noHtmlBody == ~includes(s, <<"<html">>) \/ ~includes(s, <<"<body">>)
        noViewport == ~includes(s, <<"viewport">>)
        hasJs == includes(s, <<"<script">>) \/ includes(s, <<"javascript", ":">>)
        hasForm == includes(s, <<"<form">>)
    IN [errors |-> a.errors
            \o PushIf(noTable, Err("structure",
                 "Email must use table-based layout for maximum email client compatibility"))
            \o PushIf(hasJs, Err("structure",
                 "JavaScript is not supported in email clients")),
        warnings |-> a.warnings
            \o PushIf(noDoctype, Warn("structure", "Missing HTML 4.01 Transitional DOCTYPE"))
            \o PushIf(noHtmlBody, Warn("structure", "Missing proper HTML document structure"))
            \o PushIf(noViewport, Warn("structure", "Missing viewport meta tag"))
            \o PushIf(hasForm, Warn("structure", "Forms have limited support in email clients"))]

unsupportedProperties_NoKeyframes ==
    << [prop |-> <<"position", ":", " ", "fixed">>, name |-> "position: fixed",
        message |-> "Fixed positioning is not supported"],
       [prop |-> <<"position", ":", " ", "absolute">>, name |-> "position: absolute",
        message |-> "Absolute positioning has limited support"],
       [prop |-> <<"float", ":">>, name |-> "float:",
        message |-> "Float property has inconsistent support"],
       [prop |-> <<"display", ":", " ", "flex">>, name |-> "display: flex",
        message |-> "Flexbox is not supported in most email clients"],
       [prop |-> <<"display", ":", " ", "grid">>, name |-> "display: grid",
        message |-> "CSS Grid is not supported in email clients"],
       [prop |-> <<"transform", ":">>, name |-> "transform:",
        message |-> "CSS transforms are not supported"],
       [prop |-> <<"animation", ":">>, name |-> "animation:",
        message |-> "CSS animations are not supported"],
       [prop |-> <<"@media">>, name |-> "@media",
        message |-> "Media queries have limited support"] >>

\* the fixed list of denylisted CSS, each with its literal and its message
unsupportedProperties ==
    << [prop |-> <<"position", ":", " ", "fixed">>, name |-> "position: fixed",
        message |-> "Fixed positioning is not supported"],
       [prop |-> <<"position", ":", " ", "absolute">>, name |-> "position: absolute",
        message |-> "Absolute positioning has limited support"],
       [prop |-> <<"float", ":">>, name |-> "float:",
        message |-> "Float property has inconsistent support"],
       [prop |-> <<"display", ":", " ", "flex">>, name |-> "display: flex",
        message |-> "Flexbox is not supported in most email clients"],
       [prop |-> <<"display", ":", " ", "grid">>, name |-> "display: grid",
        message |-> "CSS Grid is not supported in email clients"],
       [prop |-> <<"transform", ":">>, name |-> "transform:",
        message |-> "CSS transforms are not supported"],
       [prop |-> <<"animation", ":">>, name |-> "animation:",
        message |-> "CSS animations are not supported"],
       [prop |-> <<"@media">>, name |-> "@media",
        message |-> "Media queries have limited support"],
       [prop |-> <<"@keyframes">>, name |-> "@keyframes",
        message |-> "CSS animations are not supported"] >>

\* unsupportedProperties.forEach(...): the warnings pushed from entry i on
RECURSIVE unsupportedWarnings(_, _)
unsupportedWarnings(s, i) ==
    IF i > Len(unsupportedProperties) THEN <<>>
    ELSE LET p == unsupportedProperties[i]
         IN PushIf(includes(toLowerCase(s), toLowerCase(p.prop)),
                   Warn("css", "CSS property \"" \o p.name \o "\" - " \o p.message))
            \o unsupportedWarnings(s, i + 1)

\* /width\s*[=:]\s*["']?(\d+)(?:px)?["']?/gi matched at atom i:
\* the index of the captured digits, or 0 when there is no match at i
widthDigitsAt(s, i) ==
    IF LowerAtom(s[i]) # "width" THEN 0
    ELSE LET j == SkipWs(s, i + 1)
         IN IF j > Len(s) \/ s[j] \notin {"=", ":"} THEN 0
            ELSE LET k == SkipWs(s, j + 1)
                     d == IF k <= Len(s) /\ s[k] \in Quotes THEN k + 1 ELSE k
                 IN IF d <= Len(s) /\ s[d] \in DigitAtoms THEN d ELSE 0

\* index of the last atom of the match whose digits are at d
widthMatchEnd(s, d) ==
    LET e == IF d + 1 <= Len(s) /\ LowerAtom(s[d + 1]) = "px" THEN d + 1 ELSE d
    IN IF e + 1 <= Len(s) /\ s[e + 1] \in Quotes THEN e + 1 ELSE e

\* the `while ((match = widthRegex.exec(html)) !== null)` loop from lastIndex
RECURSIVE widthsFrom(_, _)
widthsFrom(s, lastIndex) ==
    IF lastIndex > Len(s) THEN <<>>
    ELSE LET d == widthDigitsAt(s, lastIndex)
         IN IF d = 0 THEN widthsFrom(s, lastIndex + 1)
            ELSE <<parseInt(s[d])>> \o widthsFrom(s, widthMatchEnd(s, d) + 1)

\* Math.max(...widths)
RECURSIVE MathMax(_)
MathMax(ws) ==
    IF Len(ws) = 1 THEN ws[1]
    ELSE LET m == MathMax(Tail(ws)) IN IF ws[1] > m THEN ws[1] ELSE m

\* /font-family\s*:\s*([^;]+)/gi matched at atom i: the captured value as
\* [from, to], or <<>> when there is no match at i
fontCaptureAt(s, i) ==
    IF LowerAtom(s[i]) # "font-family" THEN <<>>
    ELSE LET j == SkipWs(s, i + 1)
         IN IF j > Len(s) \/ s[j] # ":" THEN <<>>
            ELSE LET e == IndexFrom(s, ";", j + 1) - 1
                 IN IF e < j + 1 THEN <<>> ELSE <<j + 1, e>>

\* the `while ((fontMatch = fontFamilyRegex.exec(html)) !== null)` loop
RECURSIVE fontWarningsFrom(_, _)
fontWarningsFrom(s, lastIndex) ==
    IF lastIndex > Len(s) THEN <<>>
    ELSE LET c == fontCaptureAt(s, lastIndex)
         IN IF c = <<>> THEN fontWarningsFrom(s, lastIndex + 1)
            ELSE LET fontFamily == toLowerCase(SubSeq(s, c[1], c[2]))
                 IN PushIf(~includes(fontFamily, <<"arial">>)
                             /\ ~includes(fontFamily, <<"helvetica">>)
                             /\ ~includes(fontFamily, <<"sans-serif">>),
                           Warn("css", "Non-web-safe font detected"))
                    \o fontWarningsFrom(s, c[2] + 1)

validateCSS_FirstWidth(s, a) ==
    LET hasLink == includes(s, <<"<link">>) /\ includes(s, <<"stylesheet">>)
        hasStyle == includes(s, <<"<style", ">">>)
        widths == widthsFrom(s, 1)
        maxWidth == IF Len(widths) > 0 THEN widths[1] ELSE 0
    IN [errors |-> a.errors
            \o PushIf(hasLink, Err("css",
                 "External stylesheets are blocked by most email clients"))
            \o PushIf(hasStyle, Err("css",
                 "Style tags have limited support in email clients"))
            \o PushIf(maxWidth > MAX_WIDTH, Err("css",
                 "Maximum width exceeded: " \o ToString(maxWidth) \o "px (limit: "
                   \o ToString(MAX_WIDTH) \o "px)")),
        warnings |-> a.warnings
            \o unsupportedWarnings(s, 1)
            \o fontWarningsFrom(s, 1)]

validateCSS(s, a) ==
    LET hasLink == includes(s, <<"<link">>) /\ includes(s, <<"stylesheet">>)
        hasStyle == includes(s, <<"<style", ">">>)
        widths == widthsFrom(s, 1)
        maxWidth == IF Len(widths) > 0 THEN MathMax(widths) ELSE 0
    IN [errors |-> a.errors
            \o PushIf(hasLink, Err("css",
                 "External stylesheets are blocked by most email clients"))
            \o PushIf(hasStyle, Err("css",
                 "Style tags have limited support in email clients"))
            \o PushIf(maxWidth > MAX_WIDTH, Err("css",
                 "Maximum width exceeded: " \o ToString(maxWidth) \o "px (limit: "
                   \o ToString(MAX_WIDTH) \o "px)")),
        warnings |-> a.warnings
            \o unsupportedWarnings(s, 1)
            \o fontWarningsFrom(s, 1)]

\* /<img[^>]*>/gi matches from atom i on: each match is the run of atoms from
\* "<img" to the first ">" after it
RECURSIVE imgMatchesFrom(_, _)
imgMatchesFrom(s, i) ==
    IF i > Len(s) THEN <<>>
    ELSE IF LowerAtom(s[i]) # "<img" THEN imgMatchesFrom(s, i + 1)
    ELSE LET e == IndexFrom(s, ">", i + 1)
         IN IF e > Len(s) THEN imgMatchesFrom(s, i + 1)
            ELSE <<SubSeq(s, i, e)>> \o imgMatchesFrom(s, e + 1)

\* String.prototype.match with a global regex: null when nothing matches
matchImg(s) ==
    LET ms == imgMatchesFrom(s, 1) IN [null |-> ms = <<>>, items |-> ms]

imagesOf_NoDefault(s) == matchImg(s)

\* `html.match(imgRegex) || []`
imagesOf(s) ==
    LET m == matchImg(s) IN IF m.null THEN [null |-> FALSE, items |-> <<>>] ELSE m

imageWarnings_ZeroBased(img, index) ==
    LET n == "Image " \o ToString(index)
    IN PushIf(~includes(img, <<"alt", "=">>),
              Warn("accessibility", n \o " is missing alt text"))
       \o PushIf(~includes(img, <<"width", "=">>),
              Warn("images", n \o " is missing width attribute"))
       \o PushIf(~includes(img, <<"height", "=">>),
              Warn("images", n \o " is missing height attribute"))
       \o PushIf(~includes(img, <<"display", ":", " ", "block">>)
                   /\ ~includes(img, <<"display", ":", "block">>),
              Warn("images", n \o " should use display: block"))

\* the body of images.forEach for the image at 0-based position index
imageWarnings(img, index) ==
    LET n == "Image " \o ToString(index + 1)
    IN PushIf(~includes(img, <<"alt", "=">>),
              Warn("accessibility", n \o " is missing alt text"))
       \o PushIf(~includes(img, <<"width", "=">>),
              Warn("images", n \o " is missing width attribute"))
       \o PushIf(~includes(img, <<"height", "=">>),
              Warn("images", n \o " is missing height attribute"))
       \o PushIf(~includes(img, <<"display", ":", " ", "block">>)
                   /\ ~includes(img, <<"display", ":", "block">>),
              Warn("images", n \o " should use display: block"))

RECURSIVE imagesForEach(_, _)
imagesForEach(images, index) ==
    IF index >= Len(images) THEN <<>>
    ELSE imageWarnings(images[index + 1], index) \o imagesForEach(images, index + 1)

validateImages(s, a) ==
    [errors |-> a.errors,
     warnings |-> a.warnings \o imagesForEach(imagesOf(s).items, 0)]

validateCompatibility(s, a) ==
    LET hasTable == includes(s, <<"<table">>)
    IN [errors |-> a.errors,
        warnings |-> a.warnings
            \o PushIf(hasTable /\ ~includes(s, <<"cellpadding=\"0\"">>),
                 Warn("compatibility", "Tables should include cellpadding=\"0\""))
            \o PushIf(hasTable /\ ~includes(s, <<"cellspacing=\"0\"">>),
                 Warn("compatibility", "Tables should include cellspacing=\"0\""))
            \o PushIf(hasTable /\ ~includes(s, <<"border=\"0\"">>),
                 Warn("compatibility", "Tables should include border=\"0\""))
            \o PushIf(includes(s, <<"background-", "image", ":">>),
                 Warn("compatibility", "Background images have limited support in Outlook"))]

validateAccessibility_AnyColor(s, a) ==
    [errors |-> a.errors,
     warnings |-> a.warnings
        \o PushIf(includes(s, <<"<div">>) /\ ~includes(s, <<"role", "=">>),
             Warn("accessibility", "Consider using semantic HTML or ARIA roles"))
        \o PushIf(includes(s, <<"color", ":">>),
             Warn("accessibility", "Ensure sufficient color contrast"))]

validateAccessibility(s, a) ==
    [errors |-> a.errors,
     warnings |-> a.warnings
        \o PushIf(includes(s, <<"<div">>) /\ ~includes(s, <<"role", "=">>),
             Warn("accessibility", "Consider using semantic HTML or ARIA roles"))
        \o PushIf(includes(s, <<"color", ":">>)
                    /\ ~includes(s, <<"background-", "color", ":">>),
             Warn("accessibility", "Ensure sufficient color contrast"))]

\* Array.prototype.filter(e => e.type === t)
RECURSIVE filterType(_, _)
filterType(fs, t) ==
    IF fs = <<>> THEN <<>>
    ELSE (IF Head(fs).type = t THEN <<Head(fs)>> ELSE <<>>) \o filterType(Tail(fs), t)

\* Array.prototype.map(e => e.message)
messages(fs) == [i \in 1..Len(fs) |-> fs[i].message]

Max(a, b) == IF a > b THEN a ELSE b
Min(a, b) == IF a < b THEN a ELSE b

calculateCompatibilityScore_NoFloor(errors, warnings) ==
    Min(100, 100 - Len(filterType(errors, "error")) * 15 - Len(warnings) * 5)

calculateCompatibilityScore_Ten(errors, warnings) ==
    Max(0, Min(100, 100 - Len(filterType(errors, "error")) * 10 - Len(warnings) * 5))

calculateCompatibilityScore_WarnTen(errors, warnings) ==
    Max(0, Min(100, 100 - Len(filterType(errors, "error")) * 15 - Len(warnings) * 10))

calculateCompatibilityScore_Twenty(errors, warnings) ==
    Max(0, Min(100, 100 - Len(filterType(errors, "error")) * 20 - Len(warnings) * 5))

calculateCompatibilityScore(errors, warnings) ==
    LET errorCount == Len(filterType(errors, "error"))
        warningCount == Len(warnings)
    IN Max(0, Min(100, 100 - errorCount * 15 - warningCount * 5))

\* the object literal validate returns
ValidationResult_AnyFinding(errors, warnings, score) ==
    [isValid |-> Len(errors \o warnings) = 0,
     errors |-> errors \o warnings, warnings |-> warnings, score |-> score]

ValidationResult_ErrorsOnly(errors, warnings, score) ==
    [isValid |-> Len(errors) = 0,
     errors |-> errors, warnings |-> warnings, score |-> score]

ValidationResult(errors, warnings, score) ==
    [isValid |-> Len(errors) = 0,
     errors |-> errors \o warnings,
     warnings |-> warnings,
     score |-> score]

\* `const errors = []; const warnings = []`: the arrays a call starts from
\* (shared arrays would start from what the previous call left in them)
newArray_Shared(left) == left

newArray(left) == <<>>

NoResult == [isValid |-> FALSE, errors |-> <<>>, warnings |-> <<>>, score |-> 0]
Return(r) == [kind |-> "return", error |-> "", value |-> r]
Throw(e) == [kind |-> "throw", error |-> e, value |-> NoResult]

\* the findings the previous call left behind (none when it threw)
LeftErrors == filterType(result.value.errors, "error")
LeftWarnings == result.value.warnings

\* EmailValidator.validate(h) for a JavaScript value h.  `html.includes` on a
\* value that is not a string, and `.forEach` on null, raise a TypeError.
validate(h) ==
    IF h.t # "string" THEN Throw("TypeError")
    ELSE IF imagesOf(h.v).null THEN Throw("TypeError")
    ELSE LET s == h.v
             a0 == [errors |-> newArray(LeftErrors), warnings |-> newArray(LeftWarnings)]
             a5 == validateAccessibility(s, validateCompatibility(s, validateImages(s,
                      validateCSS(s, validateStructure(s, a0)))))
             score == calculateCompatibilityScore(a5.errors, a5.warnings)
         IN Return(ValidationResult(a5.errors, a5.warnings, score))

---------------------------------------------------------------------------
(* Documents: the texts handed to the validator are concatenations of the  *)
(* fragments below.                                                        *)

Fragment ==
    [ head     |-> <<"<!", "DOCTYPE html PUBLIC", ">", "<html", ">",
                     "<meta name=", "viewport", ">", "<body", ">">>,
      table    |-> <<"<table", " ", "cellpadding=\"0\"", " ", "cellspacing=\"0\"", " ",
                     "border=\"0\"", " ", "width", "=", "\"", "600", "\"", ">">>,
      wide     |-> <<"<table", ">", "<tr", ">", "<td style=\"", "width", ":", "601", "px",
                     "\"", ">", "x", "</td", ">", "</tr", ">", "</table", ">">>,
      cell601  |-> <<"<td style=\"", "width", ":", " ", "601", "px", "\"", ">">>,
      upper700 |-> <<"<TD ", "WIDTH", "=", "700", ">">>,
      script   |-> <<"<script", ">", "alert(1)", "</script", ">">>,
      jsuri    |-> <<"<a href=\"", "javascript", ":", "void(0)", "\"", ">">>,
      linkcss  |-> <<"<link", " rel=\"", "stylesheet", "\"", ">">>,
      linkicon |-> <<"<link", " rel=\"icon\"", ">">>,
      word     |-> <<"stylesheet">>,
      style    |-> <<"<style", ">">>,
      styleattr|-> <<"<style", " type=\"text/css\"", ">">>,
      flex     |-> <<"<div", " style=\"", "display", ":", " ", "flex", ";", "POSITION", ":", " ",
                     "FIXED", ";", "float", ":", "left", "\"", ">">>,
      media    |-> <<"@media">>,
      messy    |-> <<"<link", " rel=\"", "stylesheet", "\"", ">", "<script", ">",
                     "<div", " style=\"", "display", ":", " ", "grid", ";", "transform", ":",
                     "none", ";", "animation", ":", "x", ";", "\"", ">", "@keyframes",
                     "<form", ">">>,
      img      |-> <<"<img", " src=\"x.png\"", ">">>,
      imgok    |-> <<"<IMG", " ", "alt", "=", "\"\"", " ", "width", "=", "\"", "100", "\"",
                     " ", "height", "=", "\"", "100", "\"", " style=\"", "display", ":",
                     " ", "block", "\"", ">">>,
      worst    |-> <<"<link", " rel=\"", "stylesheet", "\"", ">", "<script", ">", "<style",
                     ">", "<td style=\"", "width", ":", "601", "px", "\"", ">">>,
      form     |-> <<"<form", ">">>,
      georgia  |-> <<"<span style=\"", "font-family", ":", " ", "Georgia", "\"", ">">>,
      arial    |-> <<"<span style=\"", "FONT-FAMILY", ":", " ", "Arial", ";", "\"", ">">>,
      color    |-> <<"<p style=\"", "color", ":", "red", ";", "\"", ">">>,
      bgcolor  |-> <<"<p style=\"", "background-", "color", ":", "white", ";", "\"", ">">>,
      bgimage  |-> <<"<td style=\"", "background-", "image", ":", "url(x)", "\"", ">">>,
      role     |-> <<"<div", " ", "role", "=", "\"main\"", ">">>,
      name     |-> <<"{{", "name", "}}">>,
      space    |-> <<" ">> ]

Fragments == DOMAIN Fragment

\* the fragments used where calls are compared with earlier calls
CallFragments == {"wide", "img", "georgia"}

RECURSIVE Concat(_)
\* the template of CanvasEditorExample, shortened to the text the rules read
ExampleTemplate ==
    <<"<!", "DOCTYPE html PUBLIC", ">", "<html", ">", "<meta name=", "viewport", " content=\"",
      "width", "=", "device-", "width", "\"", ">", "<body", ">",
      "<table", " ", "width", "=", "\"", "600", "\"", " ", "cellpadding=\"0\"", " ",
      "cellspacing=\"0\"", " ", "border=\"0\"", ">",
      "<td style=\"", "font-family", ":", " ", "Arial", ",", " ", "sans-serif", ";", "\"", ">",
      "<h1 style=\"", "color", ":", " ", "#333333", ";", "\"", ">",
      "<td style=\"", "background-", "color", ":", " ", "#3b82f6", ";", "\"", ">">>

Concat(fs) == IF fs = <<>> THEN <<>> ELSE Fragment[Head(fs)] \o Concat(Tail(fs))

Documents(names, n) ==
    { Str(Concat(fs)) : fs \in UNION { [1..k -> names] : k \in 0..n } }

CallInputs == Documents(CallFragments, MaxCallFragments)

\* no validate call has been made yet
NoCall == [kind |-> "none", error |-> "", value |-> NoResult]
NoProbe == [set |-> FALSE, others |-> FALSE, html |-> Str(<<>>), result |-> NoCall]

InitValidator ==
    /\ html = Str(<<>>)
    /\ result = NoCall
    /\ nfrag = 0
    /\ probe = NoProbe

NoSummary == <<>>
NoWrapped == [called |-> FALSE, isValid |-> FALSE, errors |-> <<>>, warnings |-> <<>>]
SummaryIdle == summary = NoSummary /\ wrapped = NoWrapped

\* a webhook body: { signature: { timestamp, token, signature }, 'event-data':
\* { event, 'user-variables': { sendId, userId }, 'delivery-status': { message },
\* reason } }; signed = FALSE is a body without the signature object, sendId 0
\* and userId "" are absent user variables
HookBody(signed, ts, token, sig, event, sendId, userId, message, reason) ==
    [signed |-> signed, timestamp |-> ts, token |-> token, signature |-> sig,
     event |-> event, sendId |-> sendId, userId |-> userId,
     deliveryMessage |-> message, reason |-> reason]

NoDigest == [key |-> "", data |-> ""]
NoHookBody == HookBody(FALSE, "", "", NoDigest, "", 0, "", "", "")
NoUpdates == [status |-> "", error_message |-> ""]
NoHookResponse == [status |-> 0, error |-> ""]
NoHook == [pc |-> "idle", body |-> NoHookBody, updates |-> NoUpdates,
           response |-> NoHookResponse]

WebhookIdle ==
    /\ signingKey = ""
    /\ hook = NoHook
    /\ webhooks = 0
    /\ hookWrites = <<>>

NullResult == [null |-> TRUE, value |-> NoResult]
NoPending == [set |-> FALSE, value |-> NullResult]
NoTimer == [armed |-> FALSE, left |-> 0, content |-> <<>>, templateHtml |-> <<>>,
            validationResult |-> NullResult]
NoSave == [made |-> FALSE, html |-> <<>>, validation_score |-> 0, calls |-> 0]

EditorUnmounted ==
    /\ component = "none"
    /\ template = [html |-> <<>>, validation_score |-> 100]
    /\ content = <<>>
    /\ validationResult = NullResult
    /\ pending = NoPending
    /\ timer = NoTimer
    /\ lastSave = NoSave
    /\ sinceEdit = 0

NoCustomizations == [given |-> FALSE, value |-> <<>>]
Customize(v) == [given |-> TRUE, value |-> v]

\* request bodies: { templateId, recipients: { to }, subject, customizations }
\* with customizations either absent or { name: value }
Body(t, r, to, subj, c) ==
    [templateId |-> t, hasRecipients |-> r, to |-> to, subject |-> subj,
     customizations |-> c]

NoResponse == [status |-> 0, error |-> "", validationErrors |-> <<>>]
NoBody == Body("", FALSE, <<>>, "", NoCustomizations)
NoReq ==
    [pc |-> "idle", session |-> FALSE, body |-> NoBody, templateFound |-> FALSE,
     finalHtml |-> <<>>, sendId |-> 0, messageId |-> "", errorMessage |-> "",
     response |-> NoResponse]

SendIdle ==
    /\ dbTemplate = <<>>
    /\ email_sends = <<>>
    /\ mailgunCalls = <<>>
    /\ req = NoReq
    /\ requests = 0

---------------------------------------------------------------------------
(* EmailValidator.getValidationSummary, applied to the results of validate *)

\* `${n}` in a template literal
Interpolate(n) == ToString(n)

\* `${count !== 1 ? 's' : ''}`
Plural(count) == IF count # 1 THEN "s" ELSE ""

ScoreText(score) == <<" (Score: ", Interpolate(score), "/100", ")">>

getValidationSummary_NoPerfect(r) ==
    LET errorCount == Len(filterType(r.errors, "error"))
        warningCount == Len(r.warnings)
    IN IF errorCount = 0
       THEN <<"Good compatibility with ", Interpolate(warningCount), " minor issue",
              Plural(warningCount)>> \o ScoreText(r.score)
       ELSE <<Interpolate(errorCount), " error", Plural(errorCount), " and ",
              Interpolate(warningCount), " warning", Plural(warningCount), " found">>
            \o ScoreText(r.score)

\* the text without its leading emoji
getValidationSummary(r) ==
    LET errorCount == Len(filterType(r.errors, "error"))
        warningCount == Len(r.warnings)
    IN IF errorCount = 0 /\ warningCount = 0
       THEN <<"Perfect! Your email template is fully compatible">> \o ScoreText(r.score)
       ELSE IF errorCount = 0
       THEN <<"Good compatibility with ", Interpolate(warningCount), " minor issue",
              Plural(warningCount)>> \o ScoreText(r.score)
       ELSE <<Interpolate(errorCount), " error", Plural(errorCount), " and ",
              Interpolate(warningCount), " warning", Plural(warningCount), " found">>
            \o ScoreText(r.score)

\* a result of validate is at hand, for any of the documents
InitSummary ==
    /\ html \in Documents(Fragments, MaxFragments)
    /\ result = validate(html)
    /\ nfrag = 0
    /\ probe = NoProbe
    /\ EditorUnmounted
    /\ SendIdle
    /\ summary = NoSummary
    /\ wrapped = NoWrapped
    /\ WebhookIdle

Summarize ==
    /\ summary = NoSummary
    /\ summary' = getValidationSummary(result.value)
    /\ UNCHANGED <<wrapped, validatorVars, editorVars, sendVars, webhookVars>>

\* validateEmailHTML, the exported wrapper: the object literal it builds from
\* the result of EmailValidator.validate
validateEmailHTML_ErrorsOnly(r) ==
    [called |-> TRUE,
     isValid |-> r.isValid,
     errors |-> messages(filterType(r.errors, "error")),
     warnings |-> messages(r.warnings)]

validateEmailHTML(r) ==
    [called |-> TRUE,
     isValid |-> r.isValid,
     errors |-> messages(r.errors),
     warnings |-> messages(r.warnings)]

\* validateEmailHTML(html) is called on the same text; an exception of
\* validate propagates and nothing is returned
CallValidateEmailHTML ==
    /\ ~wrapped.called
    /\ wrapped' = IF validate(html).kind = "return"
                  THEN validateEmailHTML(validate(html).value)
                  ELSE [NoWrapped EXCEPT !.called = TRUE]
    /\ UNCHANGED <<summary, validatorVars, editorVars, sendVars, webhookVars>>

NextSummary == Summarize \/ CallValidateEmailHTML

SpecSummary == InitSummary /\ [][NextSummary]_vars

---------------------------------------------------------------------------
(* app/api/email/send/route.ts: POST, with lib/mailgun.ts and the tables   *)
(* it writes.  One action per await of the handler.                        *)

\* the template rows a caller may own: valid, valid with a placeholder, valid
\* with warnings, and three with error-type findings
SendTemplates ==
    { Fragment["head"] \o Fragment["table"],
      Fragment["head"] \o Fragment["table"] \o Fragment["name"],
      Fragment["table"] \o Fragment["form"],
      Fragment["wide"],
      Fragment["head"] \o Fragment["table"] \o Fragment["script"],
      Fragment["messy"] }

Bodies ==
    { Body("t1", TRUE, <<"a@b.co">>, "Hi", NoCustomizations),
      Body("t1", TRUE, <<"a@b.co">>, "Hi", Customize(<<"Bob">>)),
      Body("t1", TRUE, <<"a@b.co">>, "Hi", Customize(Fragment["script"])),
      Body("t1", TRUE, <<"not-an-email">>, "Hi", NoCustomizations),
      Body("t1", TRUE, <<>>, "Hi", NoCustomizations),
      Body("t1", FALSE, <<>>, "Hi", NoCustomizations),
      Body("t1", TRUE, <<"a@b.co">>, "", NoCustomizations),
      Body("", TRUE, <<"a@b.co">>, "Hi", NoCustomizations),
      Body("t404", TRUE, <<"a@b.co">>, "Hi", NoCustomizations) }

\* /^[^\s@]+@[^\s@]+\.[^\s@]+$/.test(email) on the addresses used here
emailRegexTest(email) == email = "a@b.co"

\* String.prototype.replace(new RegExp('{{name}}', 'g'), value)
RECURSIVE replaceName(_, _)
replaceName(s, value) ==
    IF s = <<>> THEN <<>>
    ELSE IF Len(s) >= 3 /\ SubSeq(s, 1, 3) = <<"{{", "name", "}}">>
         THEN value \o replaceName(SubSeq(s, 4, Len(s)), value)
         ELSE <<Head(s)>> \o replaceName(Tail(s), value)

InitSend ==
    /\ InitValidator
    /\ EditorUnmounted
    /\ SummaryIdle
    /\ WebhookIdle
    /\ dbTemplate \in SendTemplates
    /\ email_sends = <<>>
    /\ mailgunCalls = <<>>
    /\ req = NoReq
    /\ requests = 0

\* NextResponse.json({ error, validationErrors? }, { status })
Respond(status, error, validationErrors) ==
    req' = [req EXCEPT !.pc = "done",
                       !.response = [status |-> status, error |-> error,
                                     validationErrors |-> validationErrors]]

\* a POST arrives, with or without a session cookie
Post(session, body) ==
    /\ req.pc \in {"idle", "done"}
    /\ requests < MaxRequests
    /\ req' = [NoReq EXCEPT !.pc = "getSession", !.session = session, !.body = body]
    /\ requests' = requests + 1
    /\ UNCHANGED <<dbTemplate, email_sends, mailgunCalls, validatorVars, editorVars,
                 summaryVars, webhookVars>>

\* await supabaseServer.auth.getSession()
GetSession ==
    /\ req.pc = "getSession"
    /\ IF ~req.session
       THEN Respond(401, "Unauthorized - Please log in", <<>>)
       ELSE req' = [req EXCEPT !.pc = "json"]
    /\ UNCHANGED <<dbTemplate, email_sends, mailgunCalls, requests, validatorVars, editorVars,
                 summaryVars, webhookVars>>

\* await request.json() and the checks of the required fields
ParseBody ==
    /\ req.pc = "json"
    /\ IF req.body.templateId = "" \/ ~req.body.hasRecipients \/ req.body.subject = ""
       THEN Respond(400, "Missing required fields: templateId, recipients, subject", <<>>)
       ELSE IF Len(req.body.to) = 0
       THEN Respond(400, "At least one recipient is required", <<>>)
       ELSE req' = [req EXCEPT !.pc = "getTemplate"]
    /\ UNCHANGED <<dbTemplate, email_sends, mailgunCalls, requests, validatorVars, editorVars,
                 summaryVars, webhookVars>>

validationErrors_All(validation) == messages(validation.errors)

\* validation.errors.filter(e => e.type === 'error').map(e => e.message)
validationErrors(validation) == messages(filterType(validation.errors, "error"))

\* Object.entries(customizations).forEach(... finalHtml.replace(...))
applyCustomizations(h, c) == IF c.given THEN replaceName(h, c.value) ELSE h

\* await getTemplateById(...), then validate(template.html) and the
\* customizations
GetTemplate ==
    /\ req.pc = "getTemplate"
    /\ \E dbOk \in BOOLEAN :
         IF ~dbOk
         THEN Respond(500, "Internal server error", <<>>)
         ELSE IF req.body.templateId # "t1"
         THEN Respond(404, "Template not found", <<>>)
         ELSE IF validate(Str(dbTemplate)).kind = "throw"
         THEN Respond(500, "Internal server error", <<>>)
         ELSE IF ~validate(Str(dbTemplate)).value.isValid
         THEN req' = [req EXCEPT
                        !.pc = "done", !.templateFound = TRUE,
                        !.response =
                            [status |-> 400, error |-> "Template has validation errors",
                             validationErrors |->
                                 validationErrors(validate(Str(dbTemplate)).value)]]
         ELSE req' = [req EXCEPT
                        !.pc = "insert", !.templateFound = TRUE,
                        !.finalHtml =
                            applyCustomizations(dbTemplate, req.body.customizations)]
    /\ UNCHANGED <<dbTemplate, email_sends, mailgunCalls, requests, validatorVars, editorVars,
                 summaryVars, webhookVars>>

\* await supabaseServer.from('email_sends').insert({... status: 'pending'})
InsertSend ==
    /\ req.pc = "insert"
    /\ \E ok \in BOOLEAN :
         IF ok
         THEN /\ email_sends' = Append(email_sends,
                    [template_id |-> req.body.templateId, user_id |-> "u1",
                     status |-> "pending",
                     mailgun_message_id |-> "", error_message |-> ""])
              /\ req' = [req EXCEPT !.pc = "send", !.sendId = Len(email_sends) + 1]
         ELSE /\ Respond(500, "Failed to create send record", <<>>)
              /\ UNCHANGED email_sends
    /\ UNCHANGED <<dbTemplate, mailgunCalls, requests, validatorVars, editorVars,
                 summaryVars, webhookVars>>

\* MailgunService.validateEmailRequest: the message of the Error it throws,
\* "" when it returns
validateEmailRequest(to, subject, h) ==
    IF Len(to) = 0 THEN "At least one recipient is required"
    ELSE IF subject = "" THEN "Subject is required"
    ELSE IF IsBlank(h) THEN "Email content is required"
    ELSE IF \E i \in 1..Len(to) : ~emailRegexTest(to[i])
         THEN "Invalid email address"
         ELSE ""

\* createMailgunService() and mailgunService.sendEmail(...) up to its fetch
SendEmail ==
    /\ req.pc = "send"
    /\ \E configured \in BOOLEAN :
         IF ~configured
         THEN /\ req' = [req EXCEPT !.pc = "updateFailed",
                           !.errorMessage = "MAILGUN_API_KEY environment variable is required"]
              /\ UNCHANGED mailgunCalls
         ELSE IF validateEmailRequest(req.body.to, req.body.subject, req.finalHtml) # ""
         THEN /\ req' = [req EXCEPT !.pc = "updateFailed",
                           !.errorMessage =
                               validateEmailRequest(req.body.to, req.body.subject,
                                                    req.finalHtml)]
              /\ UNCHANGED mailgunCalls
         ELSE /\ mailgunCalls' = Append(mailgunCalls,
                    [html |-> req.finalHtml, sendId |-> req.sendId,
                     templateId |-> req.body.templateId])
              /\ req' = [req EXCEPT !.pc = "fetch"]
    /\ UNCHANGED <<dbTemplate, email_sends, requests, validatorVars, editorVars,
                 summaryVars, webhookVars>>

\* the Mailgun API answers the fetch
FetchDone ==
    /\ req.pc = "fetch"
    /\ \E ok \in BOOLEAN :
         IF ok
         THEN req' = [req EXCEPT !.pc = "updateSent", !.messageId = "mg-id"]
         ELSE req' = [req EXCEPT !.pc = "updateFailed",
                                 !.errorMessage = "Mailgun server error"]
    /\ UNCHANGED <<dbTemplate, email_sends, mailgunCalls, requests, validatorVars, editorVars,
                 summaryVars, webhookVars>>

\* await update({ status: 'sent', mailgun_message_id }); an updateError is
\* only logged
UpdateSent ==
    /\ req.pc = "updateSent"
    /\ \E ok \in BOOLEAN :
         email_sends' = IF ok
                        THEN [email_sends EXCEPT ![req.sendId].status = "sent",
                                ![req.sendId].mailgun_message_id = req.messageId]
                        ELSE email_sends
    /\ Respond(200, "", <<>>)
    /\ UNCHANGED <<dbTemplate, mailgunCalls, requests, validatorVars, editorVars,
                 summaryVars, webhookVars>>

\* await update({ status: 'failed', error_message }); its outcome is not read
UpdateFailed ==
    /\ req.pc = "updateFailed"
    /\ \E ok \in BOOLEAN :
         email_sends' = IF ok
                        THEN [email_sends EXCEPT ![req.sendId].status = "failed",
                                ![req.sendId].error_message = req.errorMessage]
                        ELSE email_sends
    /\ Respond(500, "Failed to send email", <<>>)
    /\ UNCHANGED <<dbTemplate, mailgunCalls, requests, validatorVars, editorVars,
                 summaryVars, webhookVars>>

NextSend ==
    \/ \E session \in BOOLEAN, body \in Bodies : Post(session, body)
    \/ GetSession
    \/ ParseBody
    \/ GetTemplate
    \/ InsertSend
    \/ SendEmail
    \/ FetchDone
    \/ UpdateSent
    \/ UpdateFailed

SpecSend == InitSend /\ [][NextSend]_vars

---------------------------------------------------------------------------
(* app/api/email/webhook/route.ts: POST, with updateEmailSend of            *)
(* lib/data-access.  One action per await of the handler.                  *)

\* crypto.createHmac('sha256', key).update(data).digest('hex'): the digest
\* is determined by, and determines, the key and the data
hmac(key, data) == [key |-> key, data |-> data]

SigningKeys == {"", "whsec"}

HookBodies ==
    { HookBody(TRUE, "17", "ab", hmac("whsec", "17ab"), "delivered", 1, "u1", "", ""),
      HookBody(TRUE, "17", "ab", hmac("whsec", "17ab"), "failed", 1, "u1", "", "bounce"),
      HookBody(TRUE, "17", "ab", hmac("whsec", "17ab"), "rejected", 1, "u1", "", ""),
      HookBody(TRUE, "17", "ab", hmac("whsec", "17ab"), "complained", 1, "u1", "550", "spam"),
      HookBody(TRUE, "17", "ab", hmac("whsec", "17ab"), "accepted", 1, "u1", "", ""),
      HookBody(TRUE, "17", "ab", hmac("whsec", "17ab"), "opened", 1, "u1", "", ""),
      HookBody(TRUE, "17", "ab", hmac("whsec", "17ab"), "delivered", 0, "u1", "", ""),
      HookBody(TRUE, "17", "ab", hmac("whsec", "17ab"), "delivered", 1, "u2", "", ""),
      HookBody(TRUE, "1", "7ab", hmac("whsec", "17ab"), "delivered", 1, "u1", "", ""),
      HookBody(TRUE, "17", "ab", hmac("other", "17ab"), "failed", 1, "u1", "", ""),
      HookBody(TRUE, "18", "ab", hmac("whsec", "17ab"), "failed", 1, "u1", "", ""),
      HookBody(TRUE, "17", "ab", NoDigest, "failed", 1, "u1", "", ""),
      HookBody(FALSE, "", "", NoDigest, "failed", 1, "u1", "", "") }

verifyWebhookSignature_KeyOptional(timestamp, token, signature) ==
    IF signingKey = "" THEN TRUE
    ELSE hmac(signingKey, timestamp \o token) = signature

verifyWebhookSignature(timestamp, token, signature) ==
    IF signingKey = "" THEN FALSE
    ELSE hmac(signingKey, timestamp \o token) = signature

\* eventMap[event] || null, "" standing for null
mapEventToStatus(event) ==
    CASE event = "accepted" -> "pending"
      [] event = "delivered" -> "sent"
      [] event \in {"failed", "rejected", "complained", "unsubscribed"} -> "failed"
      [] OTHER -> ""

\* deliveryStatus?.message || reason || `Email ${event}`
errorMessageOf(body) ==
    IF body.deliveryMessage # "" THEN body.deliveryMessage
    ELSE IF body.reason # "" THEN body.reason
    ELSE "Email " \o body.event

HookRespond(status, error) ==
    hook' = [hook EXCEPT !.pc = "done",
                         !.response = [status |-> status, error |-> error]]

\* Mailgun, or anyone else, posts to the webhook
WebhookPost(body) ==
    /\ hook.pc \in {"idle", "done"}
    /\ webhooks < MaxWebhooks
    /\ hook' = [NoHook EXCEPT !.pc = "json", !.body = body]
    /\ webhooks' = webhooks + 1
    /\ UNCHANGED <<signingKey, hookWrites, validatorVars, editorVars, sendVars, summaryVars>>

\* await request.json(), the signature check and the mapping of the event
WebhookVerify ==
    /\ hook.pc = "json"
    /\ IF ~hook.body.signed
       THEN HookRespond(200, "Processing error logged")
       ELSE IF ~verifyWebhookSignature(hook.body.timestamp, hook.body.token,
                                       hook.body.signature)
       THEN HookRespond(401, "Invalid signature")
       ELSE IF hook.body.sendId = 0 \/ hook.body.userId = ""
       THEN HookRespond(200, "")
       ELSE IF mapEventToStatus(hook.body.event) = ""
       THEN HookRespond(200, "")
       ELSE hook' = [hook EXCEPT
                       !.pc = "update",
                       !.updates =
                           [status |-> mapEventToStatus(hook.body.event),
                            error_message |->
                                IF mapEventToStatus(hook.body.event) = "failed"
                                THEN errorMessageOf(hook.body) ELSE ""]]
    /\ UNCHANGED <<signingKey, webhooks, hookWrites, validatorVars, editorVars, sendVars,
                   summaryVars>>

\* the row that .eq('id', sendId).eq('user_id', userId) selects exists
RowMatches(sendId, userId) ==
    /\ sendId \in 1..Len(email_sends)
    /\ email_sends[sendId].user_id = userId

\* await updateEmailSend(sendId, userId, updates); when it throws the catch
\* answers 200 as well
WebhookUpdate ==
    /\ hook.pc = "update"
    /\ \E dbOk \in BOOLEAN :
         IF dbOk /\ RowMatches(hook.body.sendId, hook.body.userId)
         THEN /\ email_sends' =
                    [email_sends EXCEPT
                       ![hook.body.sendId].status = hook.updates.status,
                       ![hook.body.sendId].error_message =
                           IF hook.updates.status = "failed"
                           THEN hook.updates.error_message ELSE @]
              /\ hookWrites' = Append(hookWrites,
                    [body |-> hook.body, status |-> hook.updates.status])
              /\ HookRespond(200, "")
         ELSE /\ HookRespond(200, "Processing error logged")
              /\ UNCHANGED <<email_sends, hookWrites>>
    /\ UNCHANGED <<signingKey, webhooks, dbTemplate, mailgunCalls, req, requests,
                   validatorVars, editorVars, summaryVars>>

\* the statuses a row can have
Statuses == {"pending", "sent", "failed"}

\* the webhook alone, for a row in any status
InitWebhook ==
    /\ InitValidator
    /\ EditorUnmounted
    /\ SummaryIdle
    /\ dbTemplate = <<>>
    /\ \E st \in Statuses :
         email_sends = << [template_id |-> "t1", user_id |-> "u1", status |-> st,
                           mailgun_message_id |-> IF st = "sent" THEN "mg-id" ELSE "",
                           error_message |-> IF st = "failed" THEN "bounce" ELSE ""] >>
    /\ mailgunCalls = <<>>
    /\ req = NoReq
    /\ requests = 0
    /\ signingKey \in SigningKeys
    /\ hook = NoHook
    /\ webhooks = 0
    /\ hookWrites = <<>>

NextWebhook ==
    \/ \E body \in HookBodies : WebhookPost(body)
    \/ WebhookVerify
    \/ WebhookUpdate

SpecWebhook == InitWebhook /\ [][NextWebhook]_vars

---------------------------------------------------------------------------
(* The send route and the webhook working on the same email_sends rows *)

InitTracking ==
    /\ InitValidator
    /\ EditorUnmounted
    /\ SummaryIdle
    /\ dbTemplate \in SendTemplates
    /\ email_sends = <<>>
    /\ mailgunCalls = <<>>
    /\ req = NoReq
    /\ requests = 0
    /\ signingKey = "whsec"
    /\ hook = NoHook
    /\ webhooks = 0
    /\ hookWrites = <<>>

\* Mailgun reports an event of a message the send route has posted to it; the
\* custom variables carry the sendId the route attached
MailgunEvent(body) ==
    /\ \E i \in 1..Len(mailgunCalls) : mailgunCalls[i].sendId = body.sendId
    /\ body.signed
    /\ body.signature = hmac("whsec", body.timestamp \o body.token)
    /\ WebhookPost(body)

NextTracking ==
    \/ \E session \in BOOLEAN, body \in Bodies : Post(session, body)
    \/ GetSession
    \/ ParseBody
    \/ GetTemplate
    \/ InsertSend
    \/ SendEmail
    \/ FetchDone
    \/ UpdateSent
    \/ UpdateFailed
    \/ \E body \in HookBodies : MailgunEvent(body)
    \/ WebhookVerify
    \/ WebhookUpdate

SpecTracking == InitTracking /\ [][NextTracking]_vars

---------------------------------------------------------------------------
(* components/canvas: CanvasEditor.  Two sources of the component exist: the *)
(* one in components/canvas/index.ts, whose handleSave is a plain closure,   *)
(* and the later one with handleSave wrapped in useCallback.                 *)

AUTO_SAVE_DELAY == 2000

Components == {"plain", "useCallback"}

\* the HTML values the user can leave in the editor
EditorDocs ==
    { <<>>,
      Fragment["space"],
      Fragment["head"] \o Fragment["table"],
      Fragment["table"],
      Fragment["table"] \o Fragment["img"],
      Fragment["wide"] }

\* Monaco's onChange hands over a string or undefined
EditorValues == { Str(d) : d \in EditorDocs } \cup {Undefined}

\* `setTimeout(() => {...}, 2000)` in a render that sees content c, template
\* html t and validation state v
setTimeout(c, t, v) ==
    [armed |-> TRUE, left |-> AUTO_SAVE_DELAY, content |-> c, templateHtml |-> t,
     validationResult |-> v]

\* the "Validate on content change" effect for content c: the state update it
\* schedules
validateEffect(c) ==
    IF c # <<>>
    THEN [set |-> TRUE, value |-> [null |-> FALSE, value |-> validate(Str(c)).value]]
    ELSE NoPending

\* the component after its first render and the effects of that render
InitEditor ==
    /\ InitValidator
    /\ SendIdle
    /\ SummaryIdle
    /\ WebhookIdle
    /\ component \in Components
    /\ \E t \in EditorDocs :
        /\ template = [html |-> t, validation_score |-> 100]
        /\ content = t
        /\ pending = validateEffect(t)
        /\ timer = setTimeout(t, t, NullResult)
    /\ validationResult = NullResult
    /\ lastSave = NoSave
    /\ sinceEdit = 0

\* handleContentChange with an auto-save effect that leaves a running timer
\* running
handleContentChange_NoRestart(value) ==
    LET newContent == IF value.t = "undefined" THEN <<>> ELSE value.v
        rendered == IF pending.set THEN pending.value ELSE validationResult
    IN /\ newContent # content
       /\ content' = newContent
       /\ validationResult' = rendered
       /\ pending' = validateEffect(newContent)
       /\ timer' = [setTimeout(newContent, template.html, rendered)
                       EXCEPT !.left = IF timer.armed THEN timer.left ELSE AUTO_SAVE_DELAY]
       /\ sinceEdit' = 0
       /\ UNCHANGED <<component, template, lastSave, validatorVars, sendVars, summaryVars, webhookVars>>

\* handleContentChange(value): setContent, then the render and its effects
handleContentChange(value) ==
    LET newContent == IF value.t = "undefined" THEN <<>> ELSE value.v
        rendered == IF pending.set THEN pending.value ELSE validationResult
    IN /\ newContent # content
       /\ content' = newContent
       /\ validationResult' = rendered
       /\ pending' = validateEffect(newContent)
       /\ timer' = setTimeout(newContent, template.html, rendered)
       /\ sinceEdit' = 0
       /\ UNCHANGED <<component, template, lastSave, validatorVars, sendVars, summaryVars, webhookVars>>

\* the render that follows setValidationResult: with useCallback the new
\* validationResult gives a new handleSave, which re-runs the auto-save effect
Rerender ==
    /\ pending.set
    /\ validationResult' = pending.value
    /\ pending' = NoPending
    /\ timer' = IF component = "useCallback"
                THEN setTimeout(content, template.html, pending.value)
                ELSE timer
    /\ UNCHANGED <<component, template, content, lastSave, sinceEdit, validatorVars, sendVars, summaryVars, webhookVars>>

\* time passes; a scheduled render runs before any further time passes
Tick ==
    /\ ~pending.set
    /\ timer.armed /\ timer.left > 0
    /\ timer' = [timer EXCEPT !.left = Max(0, timer.left - TickMs)]
    /\ sinceEdit' = Min(AUTO_SAVE_DELAY, sinceEdit + TickMs)
    /\ UNCHANGED <<component, template, content, validationResult, pending, lastSave,
                   validatorVars, sendVars, summaryVars, webhookVars>>

\* whether the handleSave captured by the timer reaches onSave
handleSaveCalls(v) ==
    /\ ~v.null
    /\ Len(filterType(v.value.errors, "error")) = 0

\* the auto-save timer fires and nothing is saved
TimerFireIdle ==
    /\ ~pending.set
    /\ timer.armed /\ timer.left = 0
    /\ ~(/\ timer.content # timer.templateHtml
         /\ ~IsBlank(timer.content)
         /\ handleSaveCalls(timer.validationResult))
    /\ timer' = NoTimer
    /\ UNCHANGED <<component, template, content, validationResult, pending, lastSave,
                   sinceEdit, validatorVars, sendVars, summaryVars, webhookVars>>

\* the auto-save timer fires and handleSave calls onSave; the parent stores the
\* saved template (CanvasEditorExample), which re-runs the auto-save effect
TimerFireSave ==
    /\ ~pending.set
    /\ timer.armed /\ timer.left = 0
    /\ timer.content # timer.templateHtml
    /\ ~IsBlank(timer.content)
    /\ handleSaveCalls(timer.validationResult)
    /\ lastSave' = [made |-> TRUE, html |-> timer.content,
                    validation_score |-> timer.validationResult.value.score,
                    calls |-> (lastSave.calls + 1) % 2]
    /\ template' = [html |-> timer.content,
                    validation_score |-> timer.validationResult.value.score]
    /\ timer' = setTimeout(content, timer.content, validationResult)
    /\ UNCHANGED <<component, content, validationResult, pending, sinceEdit, validatorVars,
                   sendVars, summaryVars, webhookVars>>

NextEditor ==
    \/ \E value \in EditorValues : handleContentChange(value)
    \/ Rerender
    \/ Tick
    \/ TimerFireIdle
    \/ TimerFireSave

SpecEditor == InitEditor /\ [][NextEditor]_vars

---------------------------------------------------------------------------
(* Validating a document while text is added to it *)

Init == InitValidator /\ EditorUnmounted /\ SendIdle /\ SummaryIdle /\ WebhookIdle

\* validate("") : the empty document
ValidateEmpty ==
    /\ html' = Str(<<>>)
    /\ result' = validate(html')
    /\ nfrag' = 0
    /\ UNCHANGED <<probe, editorVars, sendVars, summaryVars, webhookVars>>

\* validate(undefined): the caller has no HTML value at all
ValidateMissing ==
    /\ html' = Undefined
    /\ result' = validate(html')
    /\ nfrag' = 0
    /\ UNCHANGED <<probe, editorVars, sendVars, summaryVars, webhookVars>>

\* text f is added to the document and the document is validated
ValidateAppended(f) ==
    /\ html.t = "string"
    /\ nfrag < MaxFragments
    /\ html' = Str(html.v \o Fragment[f])
    /\ result' = validate(html')
    /\ nfrag' = nfrag + 1
    /\ UNCHANGED <<probe, editorVars, sendVars, summaryVars, webhookVars>>

\* the example template is validated; one more piece of text may follow it
ValidateExample ==
    /\ html' = Str(ExampleTemplate)
    /\ result' = validate(html')
    /\ nfrag' = MaxFragments - 1
    /\ UNCHANGED <<probe, editorVars, sendVars, summaryVars, webhookVars>>

Next ==
    \/ ValidateEmpty
    \/ ValidateMissing
    \/ ValidateExample
    \/ \E f \in Fragments : ValidateAppended(f)

Spec == Init /\ [][Next]_vars

---------------------------------------------------------------------------
(* Repeated and interleaved calls *)

\* a call validate(h); keep = TRUE remembers it as the earlier call
Call(h, keep) ==
    /\ html' = h
    /\ result' = validate(h)
    /\ probe' = IF keep /\ ~probe.set
                THEN [set |-> TRUE, others |-> FALSE, html |-> h, result |-> result']
                ELSE [probe EXCEPT !.others = probe.others \/ (probe.set /\ h # probe.html)]
    /\ UNCHANGED <<nfrag, editorVars, sendVars, summaryVars, webhookVars>>

NextCalls == \E h \in CallInputs, keep \in BOOLEAN : Call(h, keep)

SpecCalls == Init /\ [][NextCalls]_vars

---------------------------------------------------------------------------
(* Properties of the validator *)

Returned == result.kind = "return"
ErrorCount == Len(filterType(result.value.errors, "error"))
WarningCount == Len(result.value.warnings)
Deductions == 15 * ErrorCount + 5 * WarningCount

C2_IsValidIffNoErrors ==
    Returned => (result.value.isValid <=> ErrorCount = 0)

\* C2 witness: a valid result that still carries warnings.
C2_Witness ==
    Returned /\ result.value.isValid /\ WarningCount >= 3

\* C3: score = clamp(100 - 15*E - 5*W, 0, 100) with E the error-type findings
\* and W the length of warnings, and the score never increases from one call
\* to the next when neither E nor W shrinks.
C3_ScoreFormula ==
    /\ [](Returned =>
            result.value.score = Max(0, Min(100, 100 - 15 * ErrorCount - 5 * WarningCount)))
    /\ [][(Returned /\ Returned' /\ ErrorCount' >= ErrorCount
             /\ WarningCount' >= WarningCount)
          => result'.value.score <= result.value.score]_vars

\* C3 witness: a result with errors and warnings whose score is strictly
\* between the clamps.
C3_Witness ==
    /\ Returned /\ ErrorCount = 2 /\ WarningCount = 4
    /\ result.value.score = 50

\* C4: the score is an integer in 0..100, and it is exactly 0 when the
\* deductions reach or exceed 100.
C4_ScoreRange ==
    Returned =>
        /\ result.value.score \in 0..100
        /\ (Deductions >= 100 => result.value.score = 0)

\* C4 witness: a result whose deductions exceed 100.
C4_Witness ==
    Returned /\ Deductions > 100 /\ result.value.score = 0

\* C6: errors is all error-type findings followed by all warnings, warnings
\* is exactly the warning-type subsequence of errors, and
\* errors.length = E + W.
C6_ErrorsThenWarnings ==
    Returned =>
        /\ result.value.errors
             = filterType(result.value.errors, "error") \o result.value.warnings
        /\ result.value.warnings = filterType(result.value.errors, "warning")
        /\ \A i \in 1..Len(result.value.warnings) :
               result.value.warnings[i].type = "warning"
        /\ Len(result.value.errors) = ErrorCount + WarningCount

\* C6 witness: a result holding both kinds of finding.
C6_Witness ==
    Returned /\ ErrorCount >= 2 /\ WarningCount >= 2 /\ nfrag = 2

\* C8 as stated: a missing (undefined) or empty HTML value makes validate
\* return a result with the structural findings instead of raising.
C8_MissingHtmlReturns ==
    (result.kind # "none" /\ (html.t = "undefined" \/ html = Str(<<>>)))
        => /\ Returned
           /\ \E i \in 1..Len(result.value.errors) :
                  /\ result.value.errors[i].type = "error"
                  /\ result.value.errors[i].category = "structure"

AddsOneWarning ==
    /\ Returned /\ Returned' /\ nfrag' = nfrag + 1
    /\ ErrorCount' = ErrorCount /\ WarningCount' = WarningCount + 1

AddsOneError ==
    /\ Returned /\ Returned' /\ nfrag' = nfrag + 1
    /\ ErrorCount' = ErrorCount + 1 /\ WarningCount' = WarningCount

\* C9 as stated: added text with one more warning lowers the score by exactly
\* 5 unless it is already 0, and added text with one more error lowers it
\* by 15.
C9_AsStated ==
    [][/\ AddsOneWarning =>
            (result'.value.score = result.value.score - 5 \/ result.value.score = 0)
       /\ AddsOneError => result'.value.score = result.value.score - 15]_vars

\* C9 amended: added text with one more warning lowers the score by exactly 5
\* unless it is already 0, and added text with one more error lowers it by
\* 15, or to 0 when it was below 15.
C9_AmendedMonotone ==
    [][/\ AddsOneWarning =>
            (result'.value.score = result.value.score - 5 \/ result.value.score = 0)
       /\ AddsOneError =>
            result'.value.score = Max(0, result.value.score - 15)]_vars

\* C9 witness: a style tag was added to a document that scored 10; the one
\* extra error brought the score to 0.
C9_Witness ==
    /\ html = Str(Fragment["messy"] \o Fragment["style"])
    /\ Returned /\ result.value.score = 0
    /\ validate(Str(Fragment["messy"])).value.score = 10
    /\ ErrorCount = Len(filterType(validate(Str(Fragment["messy"])).value.errors, "error")) + 1
    /\ WarningCount = Len(validate(Str(Fragment["messy"])).value.warnings)

\* C9 witness 2 is part of the same case: a form tag added to the empty
\* document costs exactly 5.
C9_WarningWitness ==
    /\ html = Str(Fragment["form"]) /\ Returned
    /\ result.value.score = validate(Str(<<>>)).value.score - 5

\* C7: two calls with the same input return identical results, whatever
\* calls ran in between.
C7_Deterministic ==
    (probe.set /\ html = probe.html) => result = probe.result

\* C7 witness: the remembered input was validated again after calls with
\* other inputs, and it is an input the font and image scans report on.
C7_Witness ==
    /\ probe.set /\ probe.others /\ html = probe.html
    /\ html = Str(Fragment["georgia"] \o Fragment["img"])
    /\ Returned /\ WarningCount >= 5

\* C10 as stated: on every onSave call, validation_score equals
\* validate(html).score for the html saved in that same call.
C10_SavedScoreMatchesHtml ==
    lastSave.made =>
        lastSave.validation_score = validate(Str(lastSave.html)).value.score

\* the same pairing for the useCallback source alone (holds)
C10_UseCallbackPairs ==
    (component = "useCallback" /\ lastSave.made) =>
        lastSave.validation_score = validate(Str(lastSave.html)).value.score

\* the error-type findings of the stored template
TemplateErrors == filterType(validate(Str(dbTemplate)).value.errors, "error")

\* C5: a request that reaches a template with error-type findings is answered
\* 400 with validationErrors equal to the messages of exactly those findings,
\* and for such a template no email_sends record exists and Mailgun was never
\* called.
C5_InvalidTemplateBlocked ==
    Len(TemplateErrors) > 0 =>
        /\ (req.pc = "done" /\ req.templateFound) =>
              /\ req.response.status = 400
              /\ req.response.validationErrors = messages(TemplateErrors)
        /\ req.pc \notin {"insert", "send", "fetch", "updateSent", "updateFailed"}
        /\ email_sends = <<>>
        /\ mailgunCalls = <<>>

\* C5 witness: the handler fetched a template with one error and several
\* warnings and answered.
C5_Witness ==
    /\ req.pc = "done" /\ req.templateFound
    /\ Len(TemplateErrors) = 1
    /\ Len(validate(Str(dbTemplate)).value.warnings) >= 3
    /\ req.response.status = 400
    /\ Len(req.response.validationErrors) = 1

\* C11 as stated: onSave is never invoked with an html for which
\* validate(html) contains an error-type finding.
C11_NeverSavesErrors ==
    lastSave.made =>
        Len(filterType(validate(Str(lastSave.html)).value.errors, "error")) = 0

\* the same for the useCallback source alone (holds)
C11_UseCallbackNeverSavesErrors ==
    (component = "useCallback" /\ lastSave.made) =>
        Len(filterType(validate(Str(lastSave.html)).value.errors, "error")) = 0

\* C12: onSave is invoked only when 2000 ms have passed since the latest
\* edit, with the content of that moment, and only if that content differs from
\* template.html and is not blank.
C12_AutoSaveDebounced ==
    [][ lastSave' # lastSave =>
            /\ sinceEdit >= AUTO_SAVE_DELAY
            /\ lastSave'.html = content
            /\ content # template.html
            /\ ~IsBlank(content) ]_vars

\* C12 witness: the first save has just been made, 2000 ms after the edit
\* that produced the saved content.
C12_Witness ==
    /\ lastSave.made
    /\ lastSave.calls = 1
    /\ lastSave.html = content
    /\ sinceEdit = AUTO_SAVE_DELAY

\* C13: getValidationSummary returns the "perfect" text iff the result has no
\* error and no warning, the "minor issues" text iff it has no error and some
\* warning, the "errors and warnings found" text iff it has an error; every
\* text contains "<score>/100".
C13_SummaryVariants ==
    summary # NoSummary =>
        /\ includes(summary, <<"Perfect! Your email template is fully compatible">>)
              <=> (ErrorCount = 0 /\ WarningCount = 0)
        /\ includes(summary, <<" minor issue">>)
              <=> (ErrorCount = 0 /\ WarningCount >= 1)
        /\ includes(summary, <<" found">>) <=> ErrorCount >= 1
        /\ includes(summary, <<Interpolate(result.value.score), "/100">>)

\* C13 witness: the summary of a result without any finding has been produced.
C13_Witness ==
    /\ summary # NoSummary
    /\ ErrorCount = 0 /\ WarningCount = 0
    /\ includes(summary, <<"100", "/100">>)

\* a summary with errors and one with warnings only are produced as well
C13_ErrorsWitness ==
    /\ summary # NoSummary
    /\ ErrorCount = 1 /\ WarningCount = 1

\* text that may follow a compliant document without adding a finding
CompliantParts == {"imgok", "arial", "bgcolor", "role", "name", "space", "table"}

\* documents that follow every rule: the example template, alone or followed
\* by compliant parts, and the minimal head-and-table document
CompliantDocuments ==
    { ExampleTemplate \o Concat(fs) : fs \in UNION { [1..k -> CompliantParts] : k \in 0..1 } }
    \cup { Fragment["head"] \o Fragment["table"] }

WithMessage(fs, m) == { i \in 1..Len(fs) : fs[i].message = m }

\* the findings of fs of type t whose category is in cs
InCategories(fs, t, cs) == { i \in 1..Len(fs) : fs[i].type = t /\ fs[i].category \in cs }

TableLayoutMessage ==
    "Email must use table-based layout for maximum email client compatibility"
JavaScriptMessage == "JavaScript is not supported in email clients"

\* C15: validate("") has isValid = false, an error of category structure about
\* table-based layout, several structure/css warnings, and a score below 100.
C15_EmptyInput ==
    (Returned /\ html = Str(<<>>)) =>
        /\ result.value.isValid = FALSE
        /\ \E i \in WithMessage(result.value.errors, TableLayoutMessage) :
              /\ result.value.errors[i].type = "error"
              /\ result.value.errors[i].category = "structure"
        /\ Cardinality(InCategories(result.value.warnings, "warning", {"structure", "css"})) >= 2
        /\ result.value.score < 100

\* C15 witness: validate("") has returned one error and three warnings,
\* score 70.
C15_Witness ==
    /\ Returned /\ html = Str(<<>>)
    /\ ErrorCount = 1 /\ WarningCount = 3
    /\ result.value.score = 70

\* C16: an input containing "<script" or "javascript:" yields exactly one
\* structure error about JavaScript, and isValid is false.
C16_JavaScriptError ==
    (Returned /\ html.t = "string"
       /\ (includes(html.v, <<"<script">>) \/ includes(html.v, <<"javascript", ":">>))) =>
        /\ Cardinality(WithMessage(result.value.errors, JavaScriptMessage)) = 1
        /\ \A i \in WithMessage(result.value.errors, JavaScriptMessage) :
              /\ result.value.errors[i].type = "error"
              /\ result.value.errors[i].category = "structure"
        /\ result.value.isValid = FALSE

\* C16 witness: a document with both a script tag and a javascript: URI has
\* been validated.
C16_Witness ==
    /\ Returned
    /\ html.v = Fragment["script"] \o Fragment["jsuri"]
    /\ Cardinality(WithMessage(result.value.errors, JavaScriptMessage)) = 1

\* a javascript: URI alone, inside an otherwise compliant document
C16_UriWitness ==
    /\ Returned
    /\ html.v = ExampleTemplate \o Fragment["jsuri"]
    /\ ErrorCount = 1
    /\ ~result.value.isValid

\* the digits at atom d are the value of a width attribute or declaration:
\* "width", white space, "=" or ":", white space, an optional quote, digits
WidthValueAt(s, d) ==
    /\ s[d] \in DigitAtoms
    /\ \E i \in 1..(d - 1), j \in 1..(d - 1) :
          /\ i < j
          /\ LowerAtom(s[i]) = "width"
          /\ s[j] \in {"=", ":"}
          /\ \A k \in (i + 1)..(j - 1) : s[k] \in WhiteSpace
          /\ \/ \A k \in (j + 1)..(d - 1) : s[k] \in WhiteSpace
             \/ /\ d - 1 > j
                /\ s[d - 1] \in Quotes
                /\ \A k \in (j + 1)..(d - 2) : s[k] \in WhiteSpace

WidthsFound(s) == { parseInt(s[d]) : d \in { e \in 1..Len(s) : WidthValueAt(s, e) } }

WidthMessage(n) ==
    "Maximum width exceeded: " \o ToString(n) \o "px (limit: 600px)"

\* the width errors among the findings fs
WidthErrors(fs) ==
    { i \in 1..Len(fs) :
        /\ fs[i].type = "error" /\ fs[i].category = "css"
        /\ \E a \in DigitAtoms : fs[i].message = WidthMessage(parseInt(a)) }

\* C17: there is exactly one css width error iff the largest width found is
\* greater than 600, and it cites that largest width and the limit; with a
\* largest width of 600 or less, or no width at all, there is none.
C17_WidthRule ==
    (Returned /\ html.t = "string") =>
        LET found == WidthsFound(html.v)
            over == \E n \in found : n > 600
        IN /\ over => /\ Cardinality(WidthErrors(result.value.errors)) = 1
                      /\ \E n \in found :
                            /\ \A m \in found : m <= n
                            /\ WithMessage(result.value.errors, WidthMessage(n)) # {}
           /\ ~over => WidthErrors(result.value.errors) = {}

\* C17 witness: two widths over the limit, 601 and then 700, gave one error
\* citing 700.
C17_Witness ==
    /\ Returned
    /\ html.v = Fragment["cell601"] \o Fragment["upper700"]
    /\ Cardinality(WidthErrors(result.value.errors)) = 1
    /\ WithMessage(result.value.errors, WidthMessage(700)) # {}

\* a largest width of exactly 600 gives no width error
C17_AtLimitWitness ==
    /\ Returned
    /\ WidthsFound(html.v) = {100, 600}
    /\ WidthErrors(result.value.errors) = {}

\* the atoms at which an <img ...> tag starts: an "<img" in any case, closed
\* by a later ">", and not inside an earlier tag
ImgStarts(s) ==
    { p \in 1..Len(s) :
        /\ LowerAtom(s[p]) = "<img"
        /\ \E q \in (p + 1)..Len(s) : s[q] = ">"
        /\ ~\E r \in 1..(p - 1) :
               LowerAtom(s[r]) = "<img" /\ \A k \in r..(p - 1) : s[k] # ">" }

\* the tag starting at p, up to its ">"
ImgTag(s, p) ==
    LET q == CHOOSE e \in (p + 1)..Len(s) :
                 s[e] = ">" /\ \A k \in (p + 1)..(e - 1) : s[k] # ">"
    IN SubSeq(s, p, q)

\* 1-based position of the tag starting at p among all tags
ImgPosition(s, p) == Cardinality({ r \in ImgStarts(s) : r <= p })

ImgItems == {"alt", "width", "height", "display"}

ImgItemMissing(tag, item) ==
    CASE item = "alt" -> ~includes(tag, <<"alt", "=">>)
      [] item = "width" -> ~includes(tag, <<"width", "=">>)
      [] item = "height" -> ~includes(tag, <<"height", "=">>)
      [] item = "display" -> /\ ~includes(tag, <<"display", ":", " ", "block">>)
                             /\ ~includes(tag, <<"display", ":", "block">>)

ImgMessage(k, item) ==
    "Image " \o ToString(k) \o
        (CASE item = "alt" -> " is missing alt text"
           [] item = "width" -> " is missing width attribute"
           [] item = "height" -> " is missing height attribute"
           [] item = "display" -> " should use display: block")

\* the image warnings the document s should get
ExpectedImgMessages(s) ==
    { ImgMessage(ImgPosition(s, p), item) :
        <<p, item>> \in { pi \in ImgStarts(s) \X ImgItems :
                            ImgItemMissing(ImgTag(s, pi[1]), pi[2]) } }

\* the image warnings among the findings fs of a document of at most n tags
ImgWarnings(fs, n) ==
    { i \in 1..Len(fs) :
        \E k \in 0..(n + 1), item \in ImgItems : fs[i].message = ImgMessage(k, item) }

\* C18: every <img> tag gets one warning per missing item among alt=, width=,
\* height= and display: block, naming the image by its 1-based position; a
\* single <img src="x.png"> in an otherwise compliant document gives exactly 4
\* warnings and a score of 80.
C18_ImageWarnings ==
    (Returned /\ html.t = "string") =>
        LET got == ImgWarnings(result.value.warnings, Len(html.v))
        IN /\ { result.value.warnings[i].message : i \in got } = ExpectedImgMessages(html.v)
           /\ Cardinality(got) = Cardinality(ExpectedImgMessages(html.v))
           /\ \A i \in got : result.value.warnings[i].type = "warning"
           /\ html.v = ExampleTemplate \o Fragment["img"] =>
                 (ErrorCount = 0 /\ WarningCount = 4 /\ result.value.score = 80)

\* C18 witness: the example template with one bare image has been validated.
C18_Witness ==
    /\ Returned
    /\ html.v = ExampleTemplate \o Fragment["img"]
    /\ WarningCount = 4
    /\ result.value.score = 80

\* two images: the second is named "Image 2"
C18_SecondImageWitness ==
    /\ Returned
    /\ html.v = Fragment["imgok"] \o Fragment["img"]
    /\ WithMessage(result.value.warnings, ImgMessage(2, "alt")) # {}
    /\ WithMessage(result.value.warnings, ImgMessage(1, "alt")) = {}

\* the request being handled names a recipient that is not an email address
InvalidRecipient ==
    \E i \in 1..Len(req.body.to) : ~emailRegexTest(req.body.to[i])

\* C19 as stated: a request with an invalid recipient address creates no
\* email_sends record, and once it has passed the session, field and template
\* checks it is answered 400.
C19_InvalidAddressRejected ==
    (req.pc # "idle" /\ InvalidRecipient) =>
        /\ email_sends = <<>>
        /\ (req.pc = "done" /\ req.templateFound /\ Len(TemplateErrors) = 0) =>
              req.response.status = 400

\* C20 as stated: the record is 'pending' while Mailgun is being called; once
\* the handler has returned after calling Mailgun the record is 'sent' with the
\* Mailgun message id if Mailgun accepted the message and 'failed' with an
\* error message if the call threw, and never 'pending'.
C20_RecordLifecycle ==
    /\ req.pc \in {"send", "fetch"} =>
          /\ req.sendId \in 1..Len(email_sends)
          /\ email_sends[req.sendId].status = "pending"
    /\ \A i \in 1..Len(mailgunCalls) : mailgunCalls[i].sendId \in 1..Len(email_sends)
    /\ (req.pc = "done" /\ req.sendId # 0) =>
          /\ email_sends[req.sendId].status # "pending"
          /\ req.messageId # "" =>
                /\ email_sends[req.sendId].status = "sent"
                /\ email_sends[req.sendId].mailgun_message_id = req.messageId
          /\ req.errorMessage # "" =>
                /\ email_sends[req.sendId].status = "failed"
                /\ email_sends[req.sendId].error_message = req.errorMessage

\* the lifecycle whenever the status update itself took effect (holds)
C20_UpdatedRecordMatches ==
    (req.pc = "done" /\ req.sendId # 0
       /\ email_sends[req.sendId].status # "pending") =>
          /\ req.messageId # "" =>
                /\ email_sends[req.sendId].status = "sent"
                /\ email_sends[req.sendId].mailgun_message_id = req.messageId
          /\ req.errorMessage # "" =>
                /\ email_sends[req.sendId].status = "failed"
                /\ email_sends[req.sendId].error_message = req.errorMessage

\* the signature of the webhook body is the HMAC of timestamp+token under the
\* configured key
GenuineSignature(body) ==
    /\ body.signed
    /\ signingKey # ""
    /\ body.signature = hmac(signingKey, body.timestamp \o body.token)

C21_NoKeyWitness ==
    /\ hook.pc = "done"
    /\ signingKey = ""
    /\ hook.body.signature = hmac("whsec", "17ab")
    /\ hook.response.status = 401

\* a verified request updates the record
C21_VerifiedWitness ==
    /\ hook.pc = "done"
    /\ Len(hookWrites) = 1
    /\ email_sends[1].status = "failed"
    /\ email_sends[1].error_message = "Email rejected"

\* the webhook handler has written 'failed' to row k
WebhookWroteFailed(k) ==
    \E i \in 1..Len(hookWrites) :
        hookWrites[i].body.sendId = k /\ hookWrites[i].status = "failed"

\* C28 as stated: a status that is 'sent' or 'failed' is never set back to
\* 'pending', and a 'failed' written by a webhook is never overwritten with
\* 'sent' by the send route's update.
C28_StatusNeverRegresses ==
    [][ \A k \in 1..Len(email_sends) :
          /\ email_sends[k].status \in {"sent", "failed"} =>
                email_sends'[k].status # "pending"
          /\ (email_sends[k].status = "failed" /\ WebhookWroteFailed(k)
                /\ req.pc = "updateSent") =>
                email_sends'[k].status # "sent" ]_vars

\* the first half alone: no step takes a row from 'sent' or 'failed' back to
\* 'pending'
C28_NeverBackToPending ==
    [][ \A k \in 1..Len(email_sends) :
          email_sends[k].status \in {"sent", "failed"} =>
              email_sends'[k].status # "pending" ]_vars

\* the second half alone: the route's update never turns a webhook's 'failed'
\* into 'sent'
C28_RouteKeepsWebhookFailed ==
    [][ \A k \in 1..Len(email_sends) :
          (email_sends[k].status = "failed" /\ WebhookWroteFailed(k)
             /\ req.pc = "updateSent") =>
              email_sends'[k].status # "sent" ]_vars

\* the nine denylisted CSS patterns, in lower case, by name
DenylistedPatterns ==
    { [name |-> "position: fixed", atoms |-> <<"position", ":", " ", "fixed">>],
      [name |-> "position: absolute", atoms |-> <<"position", ":", " ", "absolute">>],
      [name |-> "float:", atoms |-> <<"float", ":">>],
      [name |-> "display: flex", atoms |-> <<"display", ":", " ", "flex">>],
      [name |-> "display: grid", atoms |-> <<"display", ":", " ", "grid">>],
      [name |-> "transform:", atoms |-> <<"transform", ":">>],
      [name |-> "animation:", atoms |-> <<"animation", ":">>],
      [name |-> "@media", atoms |-> <<"@media">>],
      [name |-> "@keyframes", atoms |-> <<"@keyframes">>] }

\* the css warnings among fs that name the pattern
NamingPattern(fs, name) ==
    { i \in 1..Len(fs) :
        /\ fs[i].type = "warning" /\ fs[i].category = "css"
        /\ \E m \in {"Fixed positioning is not supported",
                     "Absolute positioning has limited support",
                     "Float property has inconsistent support",
                     "Flexbox is not supported in most email clients",
                     "CSS Grid is not supported in email clients",
                     "CSS transforms are not supported",
                     "CSS animations are not supported",
                     "Media queries have limited support"} :
              fs[i].message = "CSS property \"" \o name \o "\" - " \o m }

\* C22: for each of the nine denylisted patterns there is exactly one css
\* warning naming it iff the input contains it, in any case, and none
\* otherwise, whatever else the input contains and however often it occurs.
C22_DenylistWarnings ==
    (Returned /\ html.t = "string") =>
        \A p \in DenylistedPatterns :
            Cardinality(NamingPattern(result.value.warnings, p.name))
                = IF includes(toLowerCase(html.v), p.atoms) THEN 1 ELSE 0

\* C22 witness: a document with display: flex, POSITION: FIXED and float:
\* twice each got one warning for each of the three.
C22_Witness ==
    /\ Returned
    /\ html.v = Fragment["flex"] \o Fragment["flex"]
    /\ Cardinality(NamingPattern(result.value.warnings, "display: flex")) = 1
    /\ Cardinality(NamingPattern(result.value.warnings, "position: fixed")) = 1
    /\ Cardinality(NamingPattern(result.value.warnings, "float:")) = 1

\* @keyframes and animation: in one document
C22_KeyframesWitness ==
    /\ Returned
    /\ Cardinality(NamingPattern(result.value.warnings, "@keyframes")) = 1
    /\ Cardinality(NamingPattern(result.value.warnings, "animation:")) = 1
    /\ Cardinality(NamingPattern(result.value.warnings, "@media")) = 1

\* the atoms at which a font-family declaration starts: "font-family" in any
\* case, white space, ":"
FontDeclarations(s) ==
    { i \in 1..Len(s) :
        /\ LowerAtom(s[i]) = "font-family"
        /\ \E j \in (i + 1)..Len(s) :
              s[j] = ":" /\ \A k \in (i + 1)..(j - 1) : s[k] \in WhiteSpace }

\* the value of the declaration starting at i: the text after its ":" up to
\* the ";" that terminates it or the quote that closes the style attribute
FontValue(s, i) ==
    LET j == CHOOSE c \in (i + 1)..Len(s) :
                 s[c] = ":" /\ \A k \in (i + 1)..(c - 1) : s[k] \in WhiteSpace
        ends == { e \in (j + 1)..Len(s) : s[e] \in {";", "\""} }
        e == IF ends = {} THEN Len(s) + 1
             ELSE CHOOSE x \in ends : \A y \in ends : x <= y
    IN toLowerCase(SubSeq(s, j + 1, e - 1))

NonWebSafe(value) ==
    /\ ~includes(value, <<"arial">>)
    /\ ~includes(value, <<"helvetica">>)
    /\ ~includes(value, <<"sans-serif">>)

FontWarnings(fs) == WithMessage(fs, "Non-web-safe font detected")

\* C23 as stated: a document gets exactly one non-web-safe-font warning for
\* each font-family declaration whose value contains none of arial, helvetica,
\* sans-serif, also when declarations are not terminated by ";".
C23_FontWarnings ==
    (Returned /\ html.t = "string") =>
        Cardinality(FontWarnings(result.value.warnings))
            = Cardinality({ i \in FontDeclarations(html.v) :
                              NonWebSafe(FontValue(html.v, i)) })

\* the same for documents in which every declaration ends with ";" (holds)
C23_TerminatedFontWarnings ==
    (Returned /\ html.t = "string"
       /\ \A i \in FontDeclarations(html.v) :
             \E e \in (i + 1)..Len(html.v) :
                 html.v[e] = ";" /\ \A k \in (i + 1)..(e - 1) : html.v[k] # "\"") =>
        Cardinality(FontWarnings(result.value.warnings))
            = Cardinality({ i \in FontDeclarations(html.v) :
                              NonWebSafe(FontValue(html.v, i)) })

StyleMessage == "Style tags have limited support in email clients"

\* C24 as stated: whenever the input has a <style> tag, with or without
\* attributes, there is one css error about style tags and isValid is false.
C24_StyleTagError ==
    (Returned /\ html.t = "string" /\ includes(html.v, <<"<style">>)) =>
        /\ Cardinality(WithMessage(result.value.errors, StyleMessage)) = 1
        /\ \A i \in WithMessage(result.value.errors, StyleMessage) :
              result.value.errors[i].type = "error"
                  /\ result.value.errors[i].category = "css"
        /\ result.value.isValid = FALSE

\* the same for the tag written exactly as "<style>" (holds)
C24_BareStyleTagError ==
    (Returned /\ html.t = "string" /\ includes(html.v, <<"<style", ">">>)) =>
        /\ Cardinality(WithMessage(result.value.errors, StyleMessage)) = 1
        /\ result.value.isValid = FALSE

StylesheetMessage == "External stylesheets are blocked by most email clients"

\* some <link ...> tag, from "<link" to its ">", references a stylesheet
HasStylesheetLink(s) ==
    \E i \in 1..Len(s) :
        /\ s[i] = "<link"
        /\ \E j \in (i + 1)..Len(s) :
              /\ s[j] = "stylesheet"
              /\ \A k \in (i + 1)..(j - 1) : s[k] # ">"

\* C25 as stated: the external-stylesheet error is present iff the input has a
\* <link> tag that references a stylesheet; a <link> tag of another kind with
\* the word "stylesheet" elsewhere does not produce it.
C25_StylesheetLinkError ==
    (Returned /\ html.t = "string") =>
        (WithMessage(result.value.errors, StylesheetMessage) # {}
            <=> HasStylesheetLink(html.v))

\* a stylesheet link always produces the error, once (holds)
C25_StylesheetLinkDetected ==
    (Returned /\ html.t = "string" /\ HasStylesheetLink(html.v)) =>
        Cardinality(WithMessage(result.value.errors, StylesheetMessage)) = 1

\* the finding at position i of fs is one of the five error rules
IsErrorRule(fs, i) ==
    \/ fs[i].message \in {TableLayoutMessage, JavaScriptMessage, StylesheetMessage,
                          StyleMessage}
    \/ i \in WidthErrors(fs)

\* C26: validate produces at most five error-type findings (no table,
\* JavaScript, external stylesheet, style tag, width over the limit, each at
\* most once), so without warnings the score is at least 25, and a score of 0
\* comes only together with warnings.
C26_AtMostFiveErrors ==
    Returned =>
        /\ ErrorCount <= 5
        /\ \A i \in 1..Len(result.value.errors) :
              result.value.errors[i].type = "error" => IsErrorRule(result.value.errors, i)
        /\ \A m \in {TableLayoutMessage, JavaScriptMessage, StylesheetMessage, StyleMessage} :
              Cardinality(WithMessage(result.value.errors, m)) <= 1
        /\ Cardinality(WidthErrors(result.value.errors)) <= 1
        /\ (WarningCount = 0 => result.value.score >= 25)
        /\ (result.value.score = 0 => WarningCount >= 1)

\* C26 witness: all five error rules fired on a text without any warning, and
\* the score is 25.
C26_Witness ==
    /\ Returned
    /\ ErrorCount = 5
    /\ WarningCount = 0
    /\ result.value.score = 25

\* C26 witness: a score of 0 was reached, by errors and warnings together.
C26_ZeroWitness ==
    /\ Returned
    /\ ErrorCount >= 1
    /\ WarningCount >= 1
    /\ result.value.score = 0


\* the error-type findings of validate on the html of the k-th Mailgun call
SentErrors(k) == filterType(validate(Str(mailgunCalls[k].html)).value.errors, "error")

\* C27 as stated: every HTML body handed to Mailgun has no error-type finding
\* under validate; the customizations substituted after validation cannot
\* introduce content that validate would reject.
C27_SentHtmlValid ==
    \A k \in 1..Len(mailgunCalls) : Len(SentErrors(k)) = 0

\* what the route does guarantee: the stored template of every Mailgun call
\* has no error-type finding, and the html sent is that template with the
\* request's customizations applied (holds)
C27_SentTemplateValid ==
    \A k \in 1..Len(mailgunCalls) :
        /\ Len(TemplateErrors) = 0
        /\ \E b \in Bodies :
              mailgunCalls[k].html = applyCustomizations(dbTemplate, b.customizations)

\* C29: validateEmailHTML(h) returns as errors the messages of all findings,
\* the E error-type ones followed by the W warnings (length E + W), as
\* warnings the W warning messages, and the isValid of validate; so isValid
\* can be true together with a non-empty errors list.
C29_WrapperLists ==
    (wrapped.called /\ Returned) =>
        /\ Len(wrapped.errors) = ErrorCount + WarningCount
        /\ wrapped.errors = messages(filterType(result.value.errors, "error"))
                               \o messages(result.value.warnings)
        /\ Len(wrapped.warnings) = WarningCount
        /\ wrapped.warnings = messages(result.value.warnings)
        /\ wrapped.isValid = (ErrorCount = 0)

\* C29 witness: the wrapper returned isValid = true together with a
\* non-empty errors list, made of warning messages only.
C29_Witness ==
    /\ wrapped.called
    /\ wrapped.isValid
    /\ wrapped.errors # <<>>
    /\ wrapped.errors = wrapped.warnings

\* C29 witness: the wrapper returned errors and warnings together.
C29_MixedWitness ==
    /\ wrapped.called
    /\ ~wrapped.isValid
    /\ Len(wrapped.warnings) >= 1
    /\ Len(wrapped.errors) > Len(wrapped.warnings)

=============================================================================
